---- MODULE Spec2Model ----
(***************************************************************************)
(* A model of the segment and topic layers of rust_kafka: the block/chunk  *)
(* framing of src/segment.rs (SegmentWriter, SegmentIterator, SegmentInfo) *)
(* and the composition of segments in src/topic.rs (Topic, TopicIterator). *)
(*                                                                         *)
(* Files are sequences of bytes (0..255).  Byte offsets are 0-based as in  *)
(* the source; TLA+ sequences are 1-based, so buffer[k] of the source is   *)
(* buffer[k + 1] here.                                                     *)
(***************************************************************************)
EXTENDS Integers, Sequences, FiniteSets, TLC

\* ------------------------------------------------------------------------
\* Bounds of the model (not program constants)
\* ------------------------------------------------------------------------

\* The most appends that return, over all writers.
MaxAppends == 3

\* The most blocks one message may take when it starts in a new block.
MaxChunks == 3

\* ------------------------------------------------------------------------
\* Program constants
\* ------------------------------------------------------------------------

CRC_OFFSET == 0
LEN_OFFSET == 4
TYPE_OFFSET == 8
PAYLOAD_OFFSET == 9
NUM_HEADER_BYTES == 9

FOOTER_MAGIC_OFFSET == 0
FOOTER_INDEX_OFFSET == 1
FOOTER_BUFFER_SIZE_OFFSET == 9
FOOTER_START_INDEX_OFFSET == 17
FOOTER_NEXT_INDEX_OFFSET == 25
FOOTER_MAGIC_BYTE == 42
FOOTER_BYTE_COUNT == 33

\* enum ChunkType
CT_Null == 0
CT_Full == 1
CT_Start == 2
CT_Middle == 3
CT_End == 4

\* ------------------------------------------------------------------------
\* Byte sequences
\* ------------------------------------------------------------------------

Byte == 0..255

RECURSIVE Pow2(_)
Pow2(k) == IF k = 0 THEN 1 ELSE 2 * Pow2(k - 1)

\* vec![0; n]
Zeros(n) == [i \in 1..n |-> 0]

\* &buffer[from..to] (0-based, to exclusive)
Slice(buffer, from, to) == [i \in 1..(to - from) |-> buffer[from + i]]

\* buffer[index..index + Len(data)] = data, for a range inside the buffer
Overwrite(buffer, index, data) ==
    [i \in 1..Len(buffer) |->
        IF i > index /\ i <= index + Len(data) THEN data[i - index] ELSE buffer[i]]

\* A positioned write of data at byte offset pos of a file: the file grows
\* when the write ends past its end.
FileWrite(file, pos, data) ==
    LET newLen == IF pos + Len(data) > Len(file) THEN pos + Len(data) ELSE Len(file)
    IN  [i \in 1..newLen |->
            IF i > pos /\ i <= pos + Len(data) THEN data[i - pos]
            ELSE IF i <= Len(file) THEN file[i] ELSE 0]

\* ------------------------------------------------------------------------
\* Persistable: fixed-width little-endian integers.
\* Values are naturals below 2^31 (TLC's integers); a shift by 31 bits or
\* more of such a value is 0.
\* ------------------------------------------------------------------------

\* self >> k
ShiftRight(v, k) == IF k >= 31 THEN 0 ELSE v \div Pow2(k)

\* (self >> (i << 3)) as u8
ByteOf(v, i) == ShiftRight(v, i * 8) % 256

\* Mutant: the most significant byte is stored first
WriteBytesN_BigEndian(n, v, buffer, index) ==
    [ok |-> ~(index + n > Len(buffer)),
     buffer |-> IF index + n > Len(buffer) THEN buffer
                ELSE Overwrite(buffer, index, [i \in 1..n |-> ByteOf(v, n - i)])]

\* The loop "for i in 0..n { buffer[index + i] = (self >> (i << 3)) as u8 }"
WriteBytesN(n, v, buffer, index) ==
    [ok |-> ~(index + n > Len(buffer)),
     buffer |-> IF index + n > Len(buffer) THEN buffer
                ELSE Overwrite(buffer, index, [i \in 1..n |-> ByteOf(v, i - 1)])]

\* next_byte << k (a zero byte is zero whatever the shift)
ShiftLeft(b, k) == IF b = 0 THEN 0 ELSE b * Pow2(k)

RECURSIVE OrShifted(_, _, _)
\* result |= next_byte << (i << 3), for i = n-1 down to 0 (the terms are
\* disjoint bit ranges, so the result is their sum)
OrShifted(buffer, index, n) ==
    IF n = 0 THEN 0
    ELSE ShiftLeft(buffer[index + n], (n - 1) * 8) + OrShifted(buffer, index, n - 1)

\* Mutant: a read that ends exactly at the end of the buffer is refused
ReadBytesN_OffByOne(n, buffer, index) ==
    [ok |-> ~(index + n >= Len(buffer)),
     value |-> IF index + n >= Len(buffer) THEN 0 ELSE OrShifted(buffer, index, n)]

ReadBytesN(n, buffer, index) ==
    [ok |-> ~(index + n > Len(buffer)),
     value |-> IF index + n > Len(buffer) THEN 0 ELSE OrShifted(buffer, index, n)]

U32WriteBytes(v, buffer, index) == WriteBytesN(4, v, buffer, index)
U32ReadBytes(buffer, index) == ReadBytesN(4, buffer, index)
U64WriteBytes(v, buffer, index) == WriteBytesN(8, v, buffer, index)
U64ReadBytes(buffer, index) == ReadBytesN(8, buffer, index)
U8WriteBytes(v, buffer, index) == WriteBytesN(1, v, buffer, index)
U8ReadBytes(buffer, index) == ReadBytesN(1, buffer, index)

\* ------------------------------------------------------------------------
\* calculate_crc: CRC-32/IEEE (reflected polynomial 0xEDB88320, initial
\* value and final xor 0xFFFFFFFF).  A digest does not fit TLC's integers,
\* so a u32 digest is carried as its four little-endian bytes, which is
\* what write_bytes stores for it.
\* ------------------------------------------------------------------------

RECURSIVE XorBits(_, _, _)
XorBits(a, b, n) ==
    IF n = 0 THEN 0
    ELSE ((a + b) % 2) + 2 * XorBits(a \div 2, b \div 2, n - 1)

XorNibble == [a \in 0..15 |-> [b \in 0..15 |-> XorBits(a, b, 4)]]

Xor8(a, b) == 16 * XorNibble[a \div 16][b \div 16] + XorNibble[a % 16][b % 16]

Xor32(x, y) == <<Xor8(x[1], y[1]), Xor8(x[2], y[2]), Xor8(x[3], y[3]), Xor8(x[4], y[4])>>

CrcPoly == <<32, 131, 184, 237>>  \* 0xEDB88320, little-endian bytes

\* x >> 1 on a little-endian 4-byte value
Shr1(x) == <<(x[1] \div 2) + 128 * (x[2] % 2),
             (x[2] \div 2) + 128 * (x[3] % 2),
             (x[3] \div 2) + 128 * (x[4] % 2),
             x[4] \div 2>>

RECURSIVE CrcBitSteps(_, _)
CrcBitSteps(x, n) ==
    IF n = 0 THEN x
    ELSE CrcBitSteps(IF x[1] % 2 = 1 THEN Xor32(Shr1(x), CrcPoly) ELSE Shr1(x), n - 1)

CrcTable == [n \in 0..255 |-> CrcBitSteps(<<n, 0, 0, 0>>, 8)]

RECURSIVE CrcUpdate(_, _, _)
\* value = table[(value ^ byte) & 0xFF] ^ (value >> 8), over bytes[k..]
CrcUpdate(value, bytes, k) ==
    IF k > Len(bytes) THEN value
    ELSE LET t == CrcTable[Xor8(value[1], bytes[k])]
         IN  CrcUpdate(<<Xor8(value[2], t[1]), Xor8(value[3], t[2]),
                         Xor8(value[4], t[3]), t[4]>>, bytes, k + 1)

calculate_crc(payload) ==
    Xor32(CrcUpdate(<<255, 255, 255, 255>>, payload, 1), <<255, 255, 255, 255>>)

\* ------------------------------------------------------------------------
\* ChunkType
\* ------------------------------------------------------------------------

\* ChunkType::from_byte: a byte above 4 panics ("Unknown chunk type")
KnownChunkType(byte) == byte \in {CT_Null, CT_Full, CT_Start, CT_Middle, CT_End}

\* ------------------------------------------------------------------------
\* SegmentInfo
\* ------------------------------------------------------------------------

\* SegmentInfo::new(path, index, start_offset, buffer_size).  The index is
\* a usize of 64 bits: its bits 0..55 are carried in index (below 2^31
\* here) and its bits 56..63 in index_top.
SegmentInfo_new(path, index, start_offset, buffer_size) ==
    [path |-> path, index |-> index, index_top |-> 0, buffer_size |-> buffer_size,
     start_offset |-> start_offset, next_offset |-> start_offset]

\* (info.index as u64).write_bytes(buffer, index): the low bytes, then the
\* most significant byte
IndexWriteBytes(info, buffer, index) ==
    U8WriteBytes(info.index_top, U64WriteBytes(info.index, buffer, index).buffer, index + 7)

\* ------------------------------------------------------------------------
\* SegmentWriter.  The pure operators below work on an "io" record
\*   [w |-> the SegmentWriter, file |-> the bytes of its file,
\*    disk |-> the bytes of its file as of the last sync_all,
\*    unsynced |-> the writes issued since the last sync_all]
\* where w = [segment_info, cursor, write_buffer, buffer_offset,
\*            num_payload_bytes_per_chunk] and cursor is the position of
\* the writer's file handle.
\* ------------------------------------------------------------------------

\* SegmentWriter::new: File::create truncates the file
SegmentWriter_new(segment_info) ==
    [w |-> [segment_info |-> segment_info,
            cursor |-> 0,
            write_buffer |-> Zeros(segment_info.buffer_size),
            buffer_offset |-> 0,
            num_payload_bytes_per_chunk |-> segment_info.buffer_size - NUM_HEADER_BYTES],
     file |-> <<>>, disk |-> <<>>, unsynced |-> <<>>]

\* Mutant: one byte of the room behind the last chunk is not counted
buffer_payload_capacity_OneLess(w) ==
    LET num_used_bytes == w.buffer_offset + NUM_HEADER_BYTES + 1
    IN  IF num_used_bytes >= Len(w.write_buffer) THEN 0
        ELSE Len(w.write_buffer) - num_used_bytes

buffer_payload_capacity(w) ==
    LET num_used_bytes == w.buffer_offset + NUM_HEADER_BYTES
    IN  IF num_used_bytes >= Len(w.write_buffer) THEN 0
        ELSE Len(w.write_buffer) - num_used_bytes

\* Mutant: the writer never finds room in the trailing block
is_buffer_hungry_Never(w) == FALSE

is_buffer_hungry(w) == buffer_payload_capacity(w) > 0

is_buffer_clean(w) == w.buffer_offset = 0

is_buffer_dirty(w) == ~is_buffer_clean(w)

\* seek(SeekFrom::Current(-buffer_size)) when dirty; a seek before the start
\* of the file fails and leaves the cursor (the Result is dropped)
\* Mutant: the writer does not seek back before it rewrites the block
seek_buffer_start_NoSeek(w) == w

\* SegmentWriter::seek_buffer_start
seek_buffer_start(w) ==
    IF is_buffer_dirty(w) /\ w.cursor >= Len(w.write_buffer)
    THEN [w EXCEPT !.cursor = w.cursor - Len(w.write_buffer)]
    ELSE w

num_chunks(w, payload) ==
    (Len(payload) + w.num_payload_bytes_per_chunk - 1) \div w.num_payload_bytes_per_chunk

\* Mutant: the buffer is rewound but keeps the bytes of the last block
clear_buffer_KeepsBytes(w) == [w EXCEPT !.buffer_offset = 0]

clear_buffer(w) ==
    [w EXCEPT !.write_buffer = Zeros(Len(w.write_buffer)), !.buffer_offset = 0]

\* Mutant: the writes are handed to the system but never synced
flush_NoSync(io) == io

\* file.flush(); file.sync_all(): everything written is durable
flush(io) == [io EXCEPT !.disk = io.file, !.unsynced = <<>>]

\* file.write_all(&write_buffer) at the cursor
write(io) ==
    [io EXCEPT
        !.file = FileWrite(io.file, io.w.cursor, io.w.write_buffer),
        !.unsynced = Append(io.unsynced, [pos |-> io.w.cursor, data |-> io.w.write_buffer]),
        !.w.cursor = io.w.cursor + Len(io.w.write_buffer)]

\* Mutant: the last chunk of a split message is tagged Middle
ChunkTypeOf_NoEnd(chunk_index, n_chunks) ==
    IF chunk_index = 0 /\ n_chunks = 1 THEN CT_Full
    ELSE IF chunk_index = 0 THEN CT_Start
    ELSE CT_Middle

\* The type byte write_chunk stores
ChunkTypeOf(chunk_index, n_chunks) ==
    IF chunk_index = 0 /\ n_chunks = 1 THEN CT_Full
    ELSE IF chunk_index = 0 THEN CT_Start
    ELSE IF chunk_index + 1 = n_chunks THEN CT_End
    ELSE CT_Middle

\* Mutant: the CRC is computed over the type byte and the payload only
ChunkCrcRange_SkipsLen(buffer, buffer_offset, chunk_end) ==
    Slice(buffer, buffer_offset + TYPE_OFFSET, chunk_end)

\* The bytes the CRC of the chunk being written covers
ChunkCrcRange(buffer, buffer_offset, chunk_end) ==
    Slice(buffer, buffer_offset + LEN_OFFSET, chunk_end)

\* Mutant: the chunk is written into a buffer whose earlier chunks were
\* wiped
write_chunk_DropsPrefix(io, payload, chunk_index, n_chunks) ==
    LET w == io.w
        num_chunk_bytes == Len(payload) + NUM_HEADER_BYTES
        chunk_end == w.buffer_offset + num_chunk_bytes
        b0 == Overwrite(w.write_buffer, 0, Zeros(w.buffer_offset))
        b1 == U32WriteBytes(Len(payload), b0, w.buffer_offset + LEN_OFFSET).buffer
        b2 == Overwrite(b1, w.buffer_offset + TYPE_OFFSET, <<ChunkTypeOf(chunk_index, n_chunks)>>)
        b3 == Overwrite(b2, w.buffer_offset + PAYLOAD_OFFSET, payload)
        record_crc == calculate_crc(ChunkCrcRange(b3, w.buffer_offset, chunk_end))
        b4 == Overwrite(b3, w.buffer_offset + CRC_OFFSET, record_crc)
        written == write([io EXCEPT !.w.write_buffer = b4])
    IN  [written EXCEPT !.w.buffer_offset = chunk_end]

write_chunk(io, payload, chunk_index, n_chunks) ==
    LET w == io.w
        num_chunk_bytes == Len(payload) + NUM_HEADER_BYTES
        chunk_end == w.buffer_offset + num_chunk_bytes
        b1 == U32WriteBytes(Len(payload), w.write_buffer, w.buffer_offset + LEN_OFFSET).buffer
        b2 == Overwrite(b1, w.buffer_offset + TYPE_OFFSET, <<ChunkTypeOf(chunk_index, n_chunks)>>)
        b3 == Overwrite(b2, w.buffer_offset + PAYLOAD_OFFSET, payload)
        record_crc == calculate_crc(ChunkCrcRange(b3, w.buffer_offset, chunk_end))
        b4 == Overwrite(b3, w.buffer_offset + CRC_OFFSET, record_crc)
        written == write([io EXCEPT !.w.write_buffer = b4])
    IN  [written EXCEPT !.w.buffer_offset = chunk_end]

\* Mutant: a message that only partly fits the trailing block has its
\* first chunk written as a whole message
TailFill_PartialAsFull(io, payload) ==
    IF is_buffer_hungry(io.w) /\ is_buffer_dirty(io.w)
    THEN LET open_buffer_size == buffer_payload_capacity(io.w)
             sought == [io EXCEPT !.w = seek_buffer_start(io.w)]
         IN  IF Len(payload) <= open_buffer_size
             THEN [io |-> write_chunk(sought, payload, 0, 1),
                   remaining |-> <<>>, num_pre_chunks |-> 1]
             ELSE [io |-> write_chunk(sought, Slice(payload, 0, open_buffer_size), 0, 1),
                   remaining |-> Slice(payload, open_buffer_size, Len(payload)),
                   num_pre_chunks |-> 1]
    ELSE [io |-> io, remaining |-> payload, num_pre_chunks |-> 0]

\* write_payload, lines 286-302: the tail fill.  Returns the io after it,
\* the payload that remains and num_pre_chunks.
TailFill(io, payload) ==
    IF is_buffer_hungry(io.w) /\ is_buffer_dirty(io.w)
    THEN LET open_buffer_size == buffer_payload_capacity(io.w)
             sought == [io EXCEPT !.w = seek_buffer_start(io.w)]
         IN  IF Len(payload) <= open_buffer_size
             THEN [io |-> write_chunk(sought, payload, 0, 1),
                   remaining |-> <<>>, num_pre_chunks |-> 1]
             ELSE [io |-> write_chunk(sought, Slice(payload, 0, open_buffer_size), 0, 2),
                   remaining |-> Slice(payload, open_buffer_size, Len(payload)),
                   num_pre_chunks |-> 1]
    ELSE [io |-> io, remaining |-> payload, num_pre_chunks |-> 0]

\* remaining_payload.chunks(num_payload_bytes_per_chunk): the i-th chunk (from 0)
NthChunk(w, remaining, i) ==
    LET n == w.num_payload_bytes_per_chunk
        to == IF (i + 1) * n < Len(remaining) THEN (i + 1) * n ELSE Len(remaining)
    IN  Slice(remaining, i * n, to)

\* Mutant: the first chunk in a new block is written as a whole message
FreshChunk_StartAsFull(io, remaining, i, num_pre_chunks, n_chunks) ==
    write_chunk([io EXCEPT !.w = clear_buffer(io.w)],
                NthChunk(io.w, remaining, i), i + num_pre_chunks,
                IF i + num_pre_chunks = 0 THEN 1 ELSE n_chunks)

\* One turn of the loop of lines 308-312
FreshChunk(io, remaining, i, num_pre_chunks, n_chunks) ==
    write_chunk([io EXCEPT !.w = clear_buffer(io.w)],
                NthChunk(io.w, remaining, i), i + num_pre_chunks, n_chunks)

RECURSIVE FreshLoop(_, _, _, _, _)
\* The loop of lines 308-312 from its i-th turn on
FreshLoop(io, remaining, i, num_pre_chunks, n_chunks) ==
    IF i >= num_chunks(io.w, remaining) THEN io
    ELSE FreshLoop(FreshChunk(io, remaining, i, num_pre_chunks, n_chunks),
                   remaining, i + 1, num_pre_chunks, n_chunks)

\* write_payload for a non-empty payload (an empty one panics before
\* anything is touched)
write_payload(io, payload) ==
    LET t == TailFill(io, payload)
    IN  flush(IF Len(t.remaining) > 0
              THEN FreshLoop(t.io, t.remaining, 0, t.num_pre_chunks,
                             t.num_pre_chunks + num_chunks(t.io.w, t.remaining))
              ELSE t.io)

\* Mutant: append forgets to count the message
BumpNextOffset_Forgotten(io) == io

\* The step that follows a successful write_payload in append
BumpNextOffset(io) ==
    [io EXCEPT !.w.segment_info.next_offset = io.w.segment_info.next_offset + 1]

\* SegmentWriter::append for a non-empty payload
append(io, payload) == BumpNextOffset(write_payload(io, payload))

\* Mutant: the snapshot misses the appends (next_offset as at creation)
segment_info_snapshot_Stale(w) ==
    [w.segment_info EXCEPT !.next_offset = w.segment_info.start_offset]

\* SegmentWriter::segment_info_snapshot
segment_info_snapshot(w) == w.segment_info

\* Mutant: start offset and next offset are stored in each other's place
append_footer_Swapped(w, buffer) ==
    LET info == w.segment_info
        f1 == U8WriteBytes(FOOTER_MAGIC_BYTE, buffer, FOOTER_MAGIC_OFFSET).buffer
        f2 == IndexWriteBytes(info, f1, FOOTER_INDEX_OFFSET).buffer
        f3 == U64WriteBytes(info.buffer_size, f2, FOOTER_BUFFER_SIZE_OFFSET).buffer
        f4 == U64WriteBytes(info.next_offset, f3, FOOTER_START_INDEX_OFFSET).buffer
    IN  U64WriteBytes(info.start_offset, f4, FOOTER_NEXT_INDEX_OFFSET).buffer

append_footer(w, buffer) ==
    LET info == w.segment_info
        f1 == U8WriteBytes(FOOTER_MAGIC_BYTE, buffer, FOOTER_MAGIC_OFFSET).buffer
        f2 == IndexWriteBytes(info, f1, FOOTER_INDEX_OFFSET).buffer
        f3 == U64WriteBytes(info.buffer_size, f2, FOOTER_BUFFER_SIZE_OFFSET).buffer
        f4 == U64WriteBytes(info.start_offset, f3, FOOTER_START_INDEX_OFFSET).buffer
    IN  U64WriteBytes(info.next_offset, f4, FOOTER_NEXT_INDEX_OFFSET).buffer

\* write_footer, which is all Drop for SegmentWriter does
write_footer(io) ==
    LET footer == append_footer(io.w, Zeros(FOOTER_BYTE_COUNT))
    IN  flush([io EXCEPT
                  !.file = FileWrite(io.file, io.w.cursor, footer),
                  !.unsynced = Append(io.unsynced, [pos |-> io.w.cursor, data |-> footer]),
                  !.w.cursor = io.w.cursor + Len(footer)])

\* Mutant: the magic byte is not looked at
from_file_outcome_NoMagic(file) ==
    IF Len(file) < FOOTER_BYTE_COUNT THEN "SeekFailed" ELSE "Ok"

\* How SegmentInfo::from_file ends on a file with these bytes: with the
\* panic of the seek to 33 bytes before the end on a shorter file, with the
\* panic on a missing magic byte, or with a descriptor
from_file_outcome(file) ==
    IF Len(file) < FOOTER_BYTE_COUNT THEN "SeekFailed"
    ELSE LET footer_bytes == Slice(file, Len(file) - FOOTER_BYTE_COUNT, Len(file))
         IN  IF U8ReadBytes(footer_bytes, FOOTER_MAGIC_OFFSET).value # FOOTER_MAGIC_BYTE
             THEN "MissingMagic"
             ELSE "Ok"

\* SegmentInfo::from_file on a file with these bytes.  ok is FALSE where
\* the source panics: the seek to 33 bytes before the end fails on a
\* shorter file ("Failed to seek to footer"), or the magic byte is missing.
\* The index is read as its low seven bytes and its most significant byte.
SegmentInfo_from_file(path, file) ==
    IF from_file_outcome(file) # "Ok"
    THEN [ok |-> FALSE, error |-> from_file_outcome(file),
          info |-> SegmentInfo_new(path, 0, 0, 0)]
    ELSE LET footer_bytes == Slice(file, Len(file) - FOOTER_BYTE_COUNT, Len(file))
         IN  [ok |-> TRUE, error |-> "",
              info |-> [path |-> path,
                        index |-> ReadBytesN(7, footer_bytes, FOOTER_INDEX_OFFSET).value,
                        index_top |-> U8ReadBytes(footer_bytes, FOOTER_INDEX_OFFSET + 7).value,
                        buffer_size |-> U64ReadBytes(footer_bytes, FOOTER_BUFFER_SIZE_OFFSET).value,
                        start_offset |-> U64ReadBytes(footer_bytes, FOOTER_START_INDEX_OFFSET).value,
                        next_offset |-> U64ReadBytes(footer_bytes, FOOTER_NEXT_INDEX_OFFSET).value]]

\* ------------------------------------------------------------------------
\* SegmentIterator: it = [pos, buffer, offset], pos the position of the
\* iterator's own file handle.  The file is passed as the bytes it holds
\* when the call runs.
\* ------------------------------------------------------------------------

\* SegmentIterator::new (what SegmentInfo::iter builds)
SegmentIterator_new(buffer_size) ==
    [pos |-> 0, buffer |-> Zeros(buffer_size), offset |-> buffer_size]

\* Mutant: the iterator never takes its buffer for stale
is_stale_Never(it) == FALSE

is_stale(it) == it.buffer[it.offset + TYPE_OFFSET + 1] = CT_Null

\* Mutant: a block with exactly 9 bytes left is not taken as exhausted
is_buffer_exhausted_OffByOne(it) == it.offset + NUM_HEADER_BYTES > Len(it.buffer)

is_buffer_exhausted(it) == it.offset + NUM_HEADER_BYTES >= Len(it.buffer)

\* file.read_exact(&mut buffer): on a short read the bytes that were there
\* have been consumed and copied, and the call fails (offset is kept)
load_buffer(it, file) ==
    IF it.pos + Len(it.buffer) <= Len(file)
    THEN [ok |-> TRUE,
          it |-> [pos |-> it.pos + Len(it.buffer),
                  buffer |-> Slice(file, it.pos, it.pos + Len(it.buffer)),
                  offset |-> 0]]
    ELSE LET avail == IF Len(file) > it.pos THEN Len(file) - it.pos ELSE 0
         IN  [ok |-> FALSE,
              it |-> [it EXCEPT
                        !.pos = it.pos + avail,
                        !.buffer = Overwrite(it.buffer, 0, Slice(file, it.pos, it.pos + avail))]]

\* Mutant: the re-read also rewinds the offset, as load_buffer does
reload_buffer_Rewinds(it, file) ==
    IF it.pos < Len(it.buffer) \/ it.pos > Len(file)
    THEN [ok |-> FALSE, it |-> it]
    ELSE [ok |-> TRUE,
          it |-> [it EXCEPT !.buffer = Slice(file, it.pos - Len(it.buffer), it.pos),
                            !.offset = 0]]

\* seek(Current(-buffer_size)) then read_exact; ok is FALSE where an
\* expect() panics
reload_buffer(it, file) ==
    IF it.pos < Len(it.buffer) \/ it.pos > Len(file)
    THEN [ok |-> FALSE, it |-> it]
    ELSE [ok |-> TRUE,
          it |-> [it EXCEPT !.buffer = Slice(file, it.pos - Len(it.buffer), it.pos)]]

ensure_buffer_loaded(it, file) ==
    IF is_buffer_exhausted(it) THEN load_buffer(it, file) ELSE [ok |-> TRUE, it |-> it]

\* The bytes read_message checks the CRC of
ReadCrcRange(buffer, offset, payload_end) == Slice(buffer, offset + LEN_OFFSET, payload_end)

\* read_message(buffer, offset, payload): kind is the chunk type, or "Panic"
\* (unknown chunk type, a slice past the buffer, invalid crc)
read_message(buffer, offset, payload) ==
    LET type_byte == buffer[offset + TYPE_OFFSET + 1]
    IN  IF ~KnownChunkType(type_byte)
        THEN [kind |-> "Panic", chunk_type |-> CT_Null, offset |-> offset, payload |-> payload]
        ELSE IF type_byte = CT_Null
        THEN [kind |-> "Ok", chunk_type |-> CT_Null, offset |-> offset, payload |-> payload]
        ELSE LET payload_size == U32ReadBytes(buffer, offset + LEN_OFFSET).value
                 payload_start == offset + PAYLOAD_OFFSET
                 payload_end == offset + PAYLOAD_OFFSET + payload_size
             IN  IF payload_end > Len(buffer)
                 THEN [kind |-> "Panic", chunk_type |-> type_byte, offset |-> offset,
                       payload |-> payload]
                 ELSE IF calculate_crc(ReadCrcRange(buffer, offset, payload_end))
                            # Slice(buffer, offset + CRC_OFFSET, offset + CRC_OFFSET + 4)
                 THEN [kind |-> "Panic", chunk_type |-> type_byte, offset |-> offset,
                       payload |-> payload]
                 ELSE [kind |-> "Ok", chunk_type |-> type_byte, offset |-> payload_end,
                       payload |-> payload \o Slice(buffer, payload_start, payload_end)]

RECURSIVE NextLoop(_, _, _)
\* The loop of SegmentIterator::next, lines 71-90
NextLoop(it, payload, file) ==
    LET loaded == ensure_buffer_loaded(it, file)
    IN  IF ~loaded.ok
        THEN [kind |-> "None", payload |-> <<>>, it |-> loaded.it]
        ELSE LET r == read_message(loaded.it.buffer, loaded.it.offset, payload)
                 it2 == [loaded.it EXCEPT !.offset = r.offset]
             IN  IF r.kind = "Panic"
                 THEN [kind |-> "Panic", payload |-> <<>>, it |-> it2]
                 ELSE IF r.chunk_type \in {CT_Full, CT_End}
                 THEN [kind |-> "Some", payload |-> r.payload, it |-> it2]
                 ELSE IF r.chunk_type = CT_Null
                 THEN [kind |-> "None", payload |-> <<>>, it |-> it2]
                 ELSE NextLoop(it2, r.payload, file)

\* SegmentIterator::next: [kind |-> "Some" | "None" | "Panic", payload, it]
SegmentIterator_next(it, file) ==
    IF ~is_buffer_exhausted(it) /\ is_stale(it)
    THEN LET reloaded == reload_buffer(it, file)
         IN  IF ~reloaded.ok
             THEN [kind |-> "Panic", payload |-> <<>>, it |-> it]
             ELSE IF is_stale(reloaded.it)
             THEN [kind |-> "None", payload |-> <<>>, it |-> reloaded.it]
             ELSE NextLoop(reloaded.it, <<>>, file)
    ELSE NextLoop(it, <<>>, file)

RECURSIVE DrainFrom(_, _, _)
\* The messages a caller collects by calling next() until it returns None
\* (or panics), with the iterator left behind: [msgs, kind, it]
DrainFrom(it, file, msgs) ==
    LET r == SegmentIterator_next(it, file)
    IN  IF r.kind = "Some" THEN DrainFrom(r.it, file, Append(msgs, r.payload))
        ELSE [msgs |-> msgs, kind |-> r.kind, it |-> r.it]

\* The same from a new iterator over the file
Drain(file, buffer_size) == DrainFrom(SegmentIterator_new(buffer_size), file, <<>>)

\* ------------------------------------------------------------------------
\* Inputs
\* ------------------------------------------------------------------------

\* Block sizes: 10 leaves one payload byte per chunk, 16 is the block size
\* of the segment tests, 20 and 21 leave room for a second chunk after a
\* one-byte message.
BlockSizes == {10, 16, 20, 21}

\* A message of len bytes seed+1, seed+2, ...
Msg(len, seed) == [i \in 1..len |-> (seed + i) % 256]

\* Non-empty messages: one, two and three bytes, and thirteen bytes (more
\* than one block of every block size)
Messages == {Msg(1, 41), Msg(2, 99), Msg(3, 199), Msg(13, 9)}

\* The payloads offered to a writer of this block size: the empty one and
\* the messages that take at most MaxChunks new blocks
Payloads(buffer_size) ==
    {<<>>} \cup {m \in Messages : Len(m) <= MaxChunks * (buffer_size - NUM_HEADER_BYTES)}

\* (index, start_offset) of the segment a lone writer is created for
InitInfos == {<<0, 0>>, <<258, 70000>>}

\* The path of the segment file of a lone writer
SegPath == <<"segment">>

IsPrefix(s, t) == Len(s) <= Len(t) /\ \A i \in 1..Len(s) : s[i] = t[i]

\* ------------------------------------------------------------------------
\* State
\* ------------------------------------------------------------------------

VARIABLES
    fs,         \* the files: path -> bytes, as every open handle sees them
    disk,       \* the bytes of the writer's file as of its last sync_all
    unsynced,   \* the writer's writes since its last sync_all
    writer,     \* the SegmentWriter (Topic.open_segment)
    wstate,     \* "none" | "open" | "appending" | "closed" | "crashed"
    pend,       \* the append in progress, when its block writes are steps
    appended,   \* history: the messages whose append has returned
    lastError,  \* "" or the failure of the last append
    rejected,   \* history: some append was rejected
    topic,      \* the Topic: [segments, buffer_size] (open_segment is writer)
    snapshot,   \* segment_info_snapshot() taken right before the close
    iter,       \* one SegmentIterator over the writer's file
    returned,   \* history: the messages iter.next() has returned
    lastNext,   \* the result of the last iter.next()
    kept,       \* after a crash: which of the unsynced writes survived
    topicIter,  \* one TopicIterator with the history of its calls
    codec       \* one call of write_bytes and read_bytes: arguments and results

vars == <<fs, disk, unsynced, writer, wstate, pend, appended, lastError,
          rejected, topic, snapshot, iter, returned, lastNext, kept, topicIter, codec>>

NoPend == [payload |-> <<>>, remaining |-> <<>>, i |-> 0, num_pre_chunks |-> 0, n_chunks |-> 0]

NoResult == [kind |-> "NotCalled", payload |-> <<>>]

NoTopic == [segments |-> <<>>, buffer_size |-> 0]

\* No TopicIterator was made yet.  ti is the iterator, expect the messages of
\* the segments closed when iter() made it, open_at_iter the number of
\* messages the open segment held then, got what next() returned, last the
\* kind of its last result.
NoTopicIter == [live |-> FALSE, ti |-> <<>>, expect |-> <<>>, open_at_iter |-> 0,
                got |-> <<>>, last |-> "NotCalled"]

\* No call of write_bytes or read_bytes is being followed
NoCodec == [n |-> 0, value |-> 0, index |-> 0, buffer |-> <<>>, before |-> <<>>,
            wrote |-> "NotCalled",
            read |-> [kind |-> "NotCalled", value |-> 0, after_write |-> FALSE]]

\* The writer with its file
IO == [w |-> writer, file |-> fs[writer.segment_info.path], disk |-> disk, unsynced |-> unsynced]

SetIO(io) ==
    /\ writer' = io.w
    /\ fs' = [fs EXCEPT ![io.w.segment_info.path] = io.file]
    /\ disk' = io.disk
    /\ unsynced' = io.unsynced

AppendsLeft == Len(appended) < MaxAppends

\* The segment file
SegFile == fs[writer.segment_info.path]

BS == writer.segment_info.buffer_size

\* ------------------------------------------------------------------------
\* A lone SegmentWriter with a tailing SegmentIterator (the segment tests):
\* every append runs to its return before anything else runs.
\* ------------------------------------------------------------------------

Init ==
    \E bs \in BlockSizes, ii \in InitInfos :
        LET io == SegmentWriter_new(SegmentInfo_new(SegPath, ii[1], ii[2], bs))
        IN  /\ writer = io.w
            /\ fs = [p \in {SegPath} |-> io.file]
            /\ disk = io.disk
            /\ unsynced = io.unsynced
            /\ wstate = "open"
            /\ pend = NoPend
            /\ appended = <<>>
            /\ lastError = ""
            /\ rejected = FALSE
            /\ topic = NoTopic
            /\ snapshot = io.w.segment_info
            /\ iter = SegmentIterator_new(bs)
            /\ returned = <<>>
            /\ lastNext = NoResult
            /\ kept = {}
            /\ topicIter = NoTopicIter
            /\ codec = NoCodec

\* SegmentWriter::append(payload)
SegAppend(payload) ==
    /\ wstate = "open"
    /\ AppendsLeft
    /\ IF Len(payload) = 0
       THEN \* write_payload panics before it touches anything
            /\ lastError' = "EmptyMessage"
            /\ rejected' = TRUE
            /\ UNCHANGED <<fs, disk, unsynced, writer, appended>>
       ELSE /\ SetIO(append(IO, payload))
            /\ appended' = Append(appended, payload)
            /\ lastError' = ""
            /\ UNCHANGED rejected
    /\ UNCHANGED <<wstate, pend, topic, topicIter, codec, snapshot, iter, returned, lastNext, kept>>

\* iter.next()
IterNext ==
    /\ wstate \in {"open", "appending", "closed"}
    /\ lastNext.kind # "Panic"
    /\ LET r == SegmentIterator_next(iter, SegFile)
       IN  /\ iter' = r.it
           /\ lastNext' = [kind |-> r.kind, payload |-> r.payload]
           /\ returned' = IF r.kind = "Some" THEN Append(returned, r.payload) ELSE returned
    /\ UNCHANGED <<fs, disk, unsynced, writer, wstate, pend, appended, lastError,
                   rejected, topic, topicIter, codec, snapshot, kept>>

\* The writer is dropped: segment_info_snapshot() right before, then Drop
\* writes the footer
SegClose ==
    /\ wstate = "open"
    /\ snapshot' = segment_info_snapshot(writer)
    /\ SetIO(write_footer(IO))
    /\ wstate' = "closed"
    /\ UNCHANGED <<pend, appended, lastError, rejected, topic, topicIter, codec, iter, returned, lastNext, kept>>

Next ==
    \/ \E payload \in Payloads(BS) : SegAppend(payload)
    \/ IterNext
    \/ SegClose

Spec == Init /\ [][Next]_vars

\* ------------------------------------------------------------------------
\* The same writer and iterator with the block writes of one append as
\* separate steps: the iterator (another handle on the file) may run, and
\* the machine may crash, between two of them.
\* ------------------------------------------------------------------------

\* append up to its first block write: the empty check and the tail fill
BeginAppend(payload) ==
    /\ wstate = "open"
    /\ AppendsLeft
    /\ IF Len(payload) = 0
       THEN /\ lastError' = "EmptyMessage"
            /\ rejected' = TRUE
            /\ UNCHANGED <<fs, disk, unsynced, writer, wstate, pend>>
       ELSE LET t == TailFill(IO, payload)
            IN  /\ SetIO(t.io)
                /\ pend' = [payload |-> payload, remaining |-> t.remaining, i |-> 0,
                            num_pre_chunks |-> t.num_pre_chunks,
                            n_chunks |-> t.num_pre_chunks + num_chunks(t.io.w, t.remaining)]
                /\ wstate' = "appending"
                /\ lastError' = ""
                /\ UNCHANGED rejected
    /\ UNCHANGED <<appended, topic, topicIter, codec, snapshot, iter, returned, lastNext, kept>>

\* One turn of the fresh-block loop: one block written
AppendChunk ==
    /\ wstate = "appending"
    /\ pend.i < num_chunks(writer, pend.remaining)
    /\ SetIO(FreshChunk(IO, pend.remaining, pend.i, pend.num_pre_chunks, pend.n_chunks))
    /\ pend' = [pend EXCEPT !.i = pend.i + 1]
    /\ UNCHANGED <<wstate, appended, lastError, rejected, topic, topicIter, codec, snapshot, iter, returned,
                   lastNext, kept>>

\* The flush that ends write_payload, the count, and the return of append
FinishAppend ==
    /\ wstate = "appending"
    /\ pend.i >= num_chunks(writer, pend.remaining)
    /\ SetIO(BumpNextOffset(flush(IO)))
    /\ appended' = Append(appended, pend.payload)
    /\ pend' = NoPend
    /\ wstate' = "open"
    /\ UNCHANGED <<lastError, rejected, topic, topicIter, codec, snapshot, iter, returned, lastNext, kept>>

RECURSIVE ApplyWrites(_, _, _, _)
\* The file that holds base and, of writes[k..], those whose number is in K
ApplyWrites(base, writes, K, k) ==
    IF k > Len(writes) THEN base
    ELSE ApplyWrites(IF k \in K THEN FileWrite(base, writes[k].pos, writes[k].data) ELSE base,
                     writes, K, k + 1)

\* The machine stops.  What sync_all made durable survives; of the block
\* writes issued since, any may have reached the disk and any may not.
\* The open handles are gone: the file is read again with a new iterator.
Crash ==
    /\ wstate \in {"open", "appending"}
    /\ \E K \in SUBSET (1..Len(unsynced)) :
          /\ fs' = [fs EXCEPT ![writer.segment_info.path] = ApplyWrites(disk, unsynced, K, 1)]
          /\ kept' = K
    /\ wstate' = "crashed"
    /\ iter' = SegmentIterator_new(BS)
    /\ returned' = <<>>
    /\ lastNext' = NoResult
    /\ UNCHANGED <<disk, unsynced, writer, pend, appended, lastError, rejected, topic, topicIter, codec,
                   snapshot>>

NextConc ==
    \/ \E payload \in Payloads(BS) : BeginAppend(payload)
    \/ AppendChunk
    \/ FinishAppend
    \/ IterNext
    \/ Crash

SpecConc == Init /\ [][NextConc]_vars

\* ------------------------------------------------------------------------
\* Topic and TopicIterator
\* ------------------------------------------------------------------------

\* The most segments one topic directory comes to hold.
MaxSegments == 3

RECURSIVE DecimalDigits(_, _)
\* The last width decimal digits of n, most significant first
DecimalDigits(n, width) ==
    IF width = 0 THEN <<>> ELSE Append(DecimalDigits(n \div 10, width - 1), n % 10)

\* format!("segment_{:09}", n) pushed on the topic directory (n below 10^9)
SegmentFilePath(n) == <<"segment_">> \o DecimalDigits(n, 9)

\* The start offset of a new segment: the messages of all segments before
\* it.  Topic::produce calls a three-argument SegmentInfo::new that is not
\* in the sources, so this follows the design text.
AccumulatedPriorMessages(segments) ==
    IF Len(segments) = 0 THEN 0 ELSE segments[Len(segments)].next_offset

\* The index Topic::produce gives a new segment
NextSegmentIndex(segments) ==
    IF Len(segments) = 0 THEN 0 ELSE segments[Len(segments)].index + 1

\* Mutant: the iterator's queue misses the first segment of the list
Topic_iter_SkipsFirst(t) ==
    [segments |-> IF Len(t.segments) > 0 THEN Tail(t.segments) ELSE <<>>,
     has_iter |-> FALSE, path |-> <<>>, segment_iter |-> SegmentIterator_new(0)]

\* Topic::iter: a queue of the segments of the list, none opened yet
Topic_iter(t) ==
    [segments |-> t.segments, has_iter |-> FALSE, path |-> <<>>,
     segment_iter |-> SegmentIterator_new(0)]

RECURSIVE TopicIterator_next_from(_, _, _)
\* self.segment_iter.as_mut().and_then(|iter| iter.next()), and what
\* TopicIterator::next makes of it: a message is returned; without one, and
\* unless this already is the iterator of a segment just popped, the next
\* segment of the queue is popped, its iterator made, and that one is asked.
TopicIterator_next_from(ti, files, popped) ==
    LET message == IF ti.has_iter
                   THEN SegmentIterator_next(ti.segment_iter, files[ti.path])
                   ELSE [kind |-> "None", payload |-> <<>>, it |-> ti.segment_iter]
    IN  IF message.kind # "None" \/ popped \/ Len(ti.segments) = 0
        THEN [kind |-> message.kind, payload |-> message.payload,
              ti |-> [ti EXCEPT !.segment_iter = message.it]]
        ELSE LET segment == Head(ti.segments)
             IN  TopicIterator_next_from(
                     [segments |-> Tail(ti.segments), has_iter |-> TRUE,
                      path |-> segment.path,
                      segment_iter |-> SegmentIterator_new(segment.buffer_size)],
                     files, TRUE)

\* Mutant: the segment popped from the queue is opened but not read in the
\* same call
TopicIterator_next_NoFirstRead(ti, files) ==
    LET message == IF ti.has_iter
                   THEN SegmentIterator_next(ti.segment_iter, files[ti.path])
                   ELSE [kind |-> "None", payload |-> <<>>, it |-> ti.segment_iter]
    IN  IF message.kind # "None"
        THEN [kind |-> message.kind, payload |-> message.payload,
              ti |-> [ti EXCEPT !.segment_iter = message.it]]
        ELSE IF Len(ti.segments) > 0
        THEN [kind |-> "None", payload |-> <<>>,
              ti |-> [segments |-> Tail(ti.segments), has_iter |-> TRUE,
                      path |-> Head(ti.segments).path,
                      segment_iter |-> SegmentIterator_new(Head(ti.segments).buffer_size)]]
        ELSE [kind |-> "None", payload |-> <<>>,
              ti |-> [ti EXCEPT !.segment_iter = message.it]]

\* TopicIterator::next: [kind, payload, ti]
TopicIterator_next(ti, files) == TopicIterator_next_from(ti, files, FALSE)

RECURSIVE TopicDrainFrom(_, _, _)
\* The messages a caller collects by calling next() until it returns None
\* (or panics): [msgs, kind, ti]
TopicDrainFrom(ti, files, msgs) ==
    LET r == TopicIterator_next(ti, files)
    IN  IF r.kind = "Some" THEN TopicDrainFrom(r.ti, files, Append(msgs, r.payload))
        ELSE [msgs |-> msgs, kind |-> r.kind, ti |-> r.ti]

\* Topic::new on a directory that holds no segment files
InitTopic ==
    \E bs \in BlockSizes :
        /\ topic = [segments |-> <<>>, buffer_size |-> bs]
        /\ fs = <<>>
        /\ disk = <<>>
        /\ unsynced = <<>>
        /\ writer = SegmentWriter_new(SegmentInfo_new(<<>>, 0, 0, bs)).w
        /\ wstate = "none"
        /\ pend = NoPend
        /\ appended = <<>>
        /\ lastError = ""
        /\ rejected = FALSE
        /\ snapshot = SegmentInfo_new(<<>>, 0, 0, bs)
        /\ iter = SegmentIterator_new(bs)
        /\ returned = <<>>
        /\ lastNext = NoResult
        /\ kept = {}
        /\ topicIter = NoTopicIter
        /\ codec = NoCodec

\* Topic::produce(message).  A segment file is created only while the
\* directory holds fewer than MaxSegments files, or in the place of one it
\* holds (File::create truncates).
Topic_produce(message) ==
    /\ wstate \in {"none", "open"}
    /\ wstate = "none" =>
          \/ Cardinality(DOMAIN fs) < MaxSegments
          \/ SegmentFilePath(NextSegmentIndex(topic.segments)) \in DOMAIN fs
    /\ LET next_offset == NextSegmentIndex(topic.segments)
           path == SegmentFilePath(next_offset)
           segment_info == SegmentInfo_new(path, next_offset,
                                           AccumulatedPriorMessages(topic.segments),
                                           topic.buffer_size)
           opened == IF wstate = "none" THEN SegmentWriter_new(segment_info) ELSE IO
           io == IF Len(message) = 0 THEN opened ELSE append(opened, message)
       IN  /\ writer' = io.w
           /\ fs' = (io.w.segment_info.path :> io.file) @@ fs
           /\ disk' = io.disk
           /\ unsynced' = io.unsynced
           /\ wstate' = "open"
           /\ IF Len(message) = 0
              THEN \* append panics in write_payload, after the segment was opened
                   /\ lastError' = "EmptyMessage"
                   /\ rejected' = TRUE
                   /\ UNCHANGED appended
              ELSE /\ lastError' = ""
                   /\ appended' = Append(appended, message)
                   /\ UNCHANGED rejected
    /\ UNCHANGED <<pend, topic, topicIter, codec, snapshot, iter, returned, lastNext, kept>>

\* Topic::produce(message), one of at most MaxAppends that return
Produce(message) == AppendsLeft /\ Topic_produce(message)

\* Topic::close
TopicClose ==
    /\ wstate \in {"none", "open"}
    /\ IF wstate = "open"
       THEN /\ snapshot' = segment_info_snapshot(writer)
            /\ SetIO(write_footer(IO))
            /\ topic' = [topic EXCEPT !.segments = Append(topic.segments, segment_info_snapshot(writer))]
            /\ wstate' = "none"
       ELSE UNCHANGED <<snapshot, fs, disk, unsynced, writer, topic, wstate>>
    /\ UNCHANGED <<pend, appended, lastError, rejected, iter, returned, lastNext, kept,
                   topicIter, codec>>

\* The messages the open segment holds, by the writer's count
OpenSegmentCount ==
    IF wstate = "open"
    THEN writer.segment_info.next_offset - writer.segment_info.start_offset
    ELSE 0

\* The messages produced to segments that are closed by now
ClosedMessages == SubSeq(appended, 1, Len(appended) - OpenSegmentCount)

\* let it = topic.iter()
TopicIter ==
    /\ wstate \in {"none", "open"}
    /\ topicIter' = [live |-> TRUE, ti |-> Topic_iter(topic), expect |-> ClosedMessages,
                     open_at_iter |-> OpenSegmentCount, got |-> <<>>, last |-> "NotCalled"]
    /\ UNCHANGED <<fs, disk, unsynced, writer, wstate, pend, appended, lastError, rejected,
                   topic, snapshot, iter, returned, lastNext, kept, codec>>

\* it.next()
TopicIterNext ==
    /\ topicIter.live
    /\ topicIter.last # "Panic"
    /\ LET r == TopicIterator_next(topicIter.ti, fs)
       IN  topicIter' = [topicIter EXCEPT
                            !.ti = r.ti,
                            !.got = IF r.kind = "Some" THEN Append(@, r.payload) ELSE @,
                            !.last = r.kind]
    /\ UNCHANGED <<fs, disk, unsynced, writer, wstate, pend, appended, lastError, rejected,
                   topic, snapshot, iter, returned, lastNext, kept, codec>>

NextTopic ==
    \/ \E message \in Payloads(topic.buffer_size) : Produce(message)
    \/ TopicClose

SpecTopic == InitTopic /\ [][NextTopic]_vars

\* The messages produced while a TopicIterator is in use: the empty one, one
\* of a single chunk and one that takes two blocks of the smallest block size
TopicIterPayloads == {<<>>, Msg(1, 41), Msg(2, 99)}

\* A topic with a TopicIterator in use while it is produced to and closed
NextTopicIter ==
    \/ \E message \in TopicIterPayloads : Produce(message)
    \/ TopicClose
    \/ TopicIter
    \/ TopicIterNext

SpecTopicIter == InitTopic /\ [][NextTopicIter]_vars

\* ------------------------------------------------------------------------
\* A topic directory that is opened again (Topic::new on a directory that
\* holds segment files)
\* ------------------------------------------------------------------------

RECURSIVE ParseDecimal(_)
\* str::parse::<usize> on a string of decimal digits
ParseDecimal(digits) ==
    IF Len(digits) = 0 THEN 0
    ELSE 10 * ParseDecimal(SubSeq(digits, 1, Len(digits) - 1)) + digits[Len(digits)]

\* file_name.replace("segment_", "").parse::<usize>()
ParseSegmentOffset(path) == ParseDecimal(Tail(path))

\* The orders in which fs::read_dir may return the files of the directory:
\* the order is platform and filesystem dependent
ReadDirOrders(names) ==
    {entries \in [1..Cardinality(names) -> names] :
        \A i, j \in 1..Cardinality(names) : i # j => entries[i] # entries[j]}

\* The offsets of the descriptor of a segment found in the directory.
\* Topic::new calls a three-argument SegmentInfo::new that is not in the
\* sources, so this follows the design text: from the footer if present.
FooterOffsets(file) ==
    LET f == SegmentInfo_from_file(<<>>, file)
    IN  IF f.ok
        THEN [start_offset |-> f.info.start_offset, next_offset |-> f.info.next_offset]
        ELSE [start_offset |-> 0, next_offset |-> 0]

\* Topic::new(path, buffer_size): one descriptor per segment file, in the
\* order read_dir returns them, the index parsed from the file name and the
\* block size taken from the argument
Topic_new(entries, buffer_size, files) ==
    [segments |-> [i \in 1..Len(entries) |->
                      [path |-> entries[i],
                       index |-> ParseSegmentOffset(entries[i]),
                       index_top |-> 0,
                       buffer_size |-> buffer_size,
                       start_offset |-> FooterOffsets(files[entries[i]]).start_offset,
                       next_offset |-> FooterOffsets(files[entries[i]]).next_offset]],
     buffer_size |-> buffer_size]

\* The block sizes of a topic that is opened again: the smallest one and the
\* one of the segment tests
ReopenBlockSizes == {10, 16}

\* The topic value goes out of scope (an open segment's writer is dropped
\* and writes its footer) and Topic::new opens the directory again
Reopen ==
    /\ wstate \in {"none", "open"}
    /\ IF wstate = "open"
       THEN SetIO(write_footer(IO))
       ELSE UNCHANGED <<fs, disk, unsynced, writer>>
    /\ \E buffer_size \in ReopenBlockSizes, entries \in ReadDirOrders(DOMAIN fs) :
          topic' = Topic_new(entries, buffer_size, fs')
    /\ wstate' = "none"
    /\ UNCHANGED <<pend, appended, lastError, rejected, snapshot, iter, returned, lastNext,
                   kept, topicIter, codec>>

\* The messages produced to a topic that is opened again
ReopenPayloads == {Msg(1, 41), Msg(2, 99)}

\* Topic::produce(message); one more may return than on a fresh topic
ReopenProduce(message) == Len(appended) <= MaxAppends /\ Topic_produce(message)

NextReopen ==
    \/ \E message \in ReopenPayloads : ReopenProduce(message)
    \/ TopicClose
    \/ Reopen

\* Topic::new on a directory that holds no segment files, with the block
\* size of the segment tests
InitReopen == InitTopic /\ topic.buffer_size = 16

SpecReopen == InitReopen /\ [][NextReopen]_vars

\* ------------------------------------------------------------------------
\* Persistable on its own: one write_bytes and read_bytes of a value at an
\* index of a buffer, for each of the three widths
\* ------------------------------------------------------------------------

\* The longest buffer handed to write_bytes and read_bytes
MaxBufLen == 10

\* The widths in bytes of u8, u32 and u64
CodecWidths == {1, 4, 8}

\* Values of a width: zero, values whose bytes all differ, the largest u8,
\* the largest value TLC's integers hold
CodecValues(n) ==
    IF n = 1 THEN {0, 42, 255}
    ELSE {0, 258, 70000, 16909060, 2147483647}

\* A buffer of len bytes, none of them zero and none above 127
CodecBuffer(len) == [i \in 1..len |-> 1 + ((i * 37) % 101)]

\* The call by width: (v as uN).write_bytes(buffer, index)
Persistable_write_bytes(n, v, buffer, index) ==
    CASE n = 1 -> U8WriteBytes(v, buffer, index)
      [] n = 4 -> U32WriteBytes(v, buffer, index)
      [] n = 8 -> U64WriteBytes(v, buffer, index)

\* The call by width: uN::read_bytes(buffer, index)
Persistable_read_bytes(n, buffer, index) ==
    CASE n = 1 -> U8ReadBytes(buffer, index)
      [] n = 4 -> U32ReadBytes(buffer, index)
      [] n = 8 -> U64ReadBytes(buffer, index)

\* The value of the n bytes at index fits TLC's integers: the bytes from
\* the fifth on are zero (true of every window a write of a CodecValues
\* value has filled)
Representable(n, buffer, index) ==
    \A i \in 5..n : buffer[index + i] = 0

InitCodec ==
    /\ \E n \in CodecWidths, len \in 0..MaxBufLen :
         \E v \in CodecValues(n), index \in 0..(len + 1) :
            codec = [n |-> n, value |-> v, index |-> index, buffer |-> CodecBuffer(len),
                     before |-> CodecBuffer(len), wrote |-> "NotCalled",
                     read |-> [kind |-> "NotCalled", value |-> 0, after_write |-> FALSE]]
    /\ fs = <<>>
    /\ disk = <<>>
    /\ unsynced = <<>>
    /\ writer = SegmentWriter_new(SegmentInfo_new(<<>>, 0, 0, NUM_HEADER_BYTES + 1)).w
    /\ wstate = "none"
    /\ pend = NoPend
    /\ appended = <<>>
    /\ lastError = ""
    /\ rejected = FALSE
    /\ topic = NoTopic
    /\ snapshot = SegmentInfo_new(<<>>, 0, 0, NUM_HEADER_BYTES + 1)
    /\ iter = SegmentIterator_new(NUM_HEADER_BYTES + 1)
    /\ returned = <<>>
    /\ lastNext = NoResult
    /\ kept = {}
    /\ topicIter = NoTopicIter

\* value.write_bytes(&mut buffer, index)
CodecWrite ==
    /\ codec.wrote = "NotCalled"
    /\ LET r == Persistable_write_bytes(codec.n, codec.value, codec.buffer, codec.index)
       IN  codec' = [codec EXCEPT !.buffer = r.buffer,
                                  !.wrote = IF r.ok THEN "Ok" ELSE "Err"]
    /\ UNCHANGED <<fs, disk, unsynced, writer, wstate, pend, appended, lastError, rejected,
                   topic, snapshot, iter, returned, lastNext, kept, topicIter>>

\* uN::read_bytes(&buffer, index)
CodecRead ==
    /\ codec.index + codec.n <= Len(codec.buffer) => Representable(codec.n, codec.buffer, codec.index)
    /\ LET r == Persistable_read_bytes(codec.n, codec.buffer, codec.index)
       IN  codec' = [codec EXCEPT !.read = [kind |-> IF r.ok THEN "Ok" ELSE "Err",
                                            value |-> r.value,
                                            after_write |-> codec.wrote # "NotCalled"]]
    /\ UNCHANGED <<fs, disk, unsynced, writer, wstate, pend, appended, lastError, rejected,
                   topic, snapshot, iter, returned, lastNext, kept, topicIter>>

NextCodec ==
    \/ CodecWrite
    \/ CodecRead

SpecCodec == InitCodec /\ [][NextCodec]_vars

\* ------------------------------------------------------------------------
\* A lone SegmentWriter with a tailing SegmentIterator, for segment indexes
\* over the whole range of a usize and block sizes around the footer size
\* ------------------------------------------------------------------------

\* Block sizes: the smallest one, the one of the segment tests, the footer
\* size and the first size that is longer than the footer
FooterBlockSizes == {10, 16, 33, 34}

\* The most significant byte (bits 56..63) of the segment index: zero, the
\* byte of ChunkType::Full, a byte that is no chunk type
IndexTopBytes == {0, 1, 5}

InitFooter ==
    \E bs \in FooterBlockSizes, top \in IndexTopBytes :
        LET io == SegmentWriter_new([SegmentInfo_new(SegPath, 258, 70000, bs)
                                         EXCEPT !.index_top = top])
        IN  /\ writer = io.w
            /\ fs = [p \in {SegPath} |-> io.file]
            /\ disk = io.disk
            /\ unsynced = io.unsynced
            /\ wstate = "open"
            /\ pend = NoPend
            /\ appended = <<>>
            /\ lastError = ""
            /\ rejected = FALSE
            /\ topic = NoTopic
            /\ snapshot = io.w.segment_info
            /\ iter = SegmentIterator_new(bs)
            /\ returned = <<>>
            /\ lastNext = NoResult
            /\ kept = {}
            /\ topicIter = NoTopicIter
            /\ codec = NoCodec

SpecFooter == InitFooter /\ [][Next]_vars

\* ------------------------------------------------------------------------
\* What is on disk, read back independently of the writer's bookkeeping
\* ------------------------------------------------------------------------

\* The blocks of the segment file, footer excluded
DataBytes == IF wstate = "closed" THEN Slice(SegFile, 0, Len(SegFile) - FOOTER_BYTE_COUNT)
             ELSE SegFile

RECURSIVE ChunkBytesFrom(_, _)
\* The bytes (headers and payloads) of the chunks of a block from offset o on
ChunkBytesFrom(block, o) ==
    IF o + NUM_HEADER_BYTES >= Len(block) THEN 0
    ELSE IF block[o + TYPE_OFFSET + 1] = CT_Null THEN 0
    ELSE LET size == NUM_HEADER_BYTES + U32ReadBytes(block, o + LEN_OFFSET).value
         IN  size + ChunkBytesFrom(block, o + size)

NumBlocks == Len(DataBytes) \div BS

BlockAt(k) == Slice(DataBytes, k * BS, (k + 1) * BS)

RECURSIVE TotalChunkBytes(_)
\* Payloads plus 9-byte chunk headers in the first n blocks
TotalChunkBytes(n) ==
    IF n = 0 THEN 0 ELSE ChunkBytesFrom(BlockAt(n - 1), 0) + TotalChunkBytes(n - 1)

\* ------------------------------------------------------------------------
\* Claims checked under Spec
\* ------------------------------------------------------------------------

\* C2 (tail-read order).  With whole append calls and whole next() calls
\* interleaved on an open segment, what next() has returned so far is a
\* prefix of what has been appended, and next() has not panicked.
C2_TailReadOrder ==
    wstate = "open" => IsPrefix(returned, appended) /\ lastNext.kind # "Panic"

\* C2 witness: the iterator returned a message, then a second one that was
\* appended after the first was read, with the same iterator.
C2_Witness ==
    /\ wstate = "open"
    /\ Len(returned) = 2
    /\ Len(appended) = 2
    /\ iter.pos = BS
    /\ lastNext.kind = "Some"

\* C3 (tail-read response).  On an open segment the next call of next()
\* returns the oldest unread message when there is one, and None exactly
\* when every completed append has been returned.
C3_TailReadResponse ==
    wstate = "open" =>
        LET r == SegmentIterator_next(iter, SegFile)
        IN  IF Len(returned) < Len(appended)
            THEN r.kind = "Some" /\ r.payload = appended[Len(returned) + 1]
            ELSE r.kind = "None"

\* C3 witness: next() returned None on a partly filled trailing block, a
\* message was then packed into that block, and it is still unread.
C3_Witness ==
    /\ wstate = "open"
    /\ lastNext.kind = "None"
    /\ Len(returned) = 1
    /\ Len(appended) = 2
    /\ Len(SegFile) = BS
    /\ iter.offset < writer.buffer_offset

\* C5 (closed-segment round trip).  Once the writer is closed, a new
\* iterator of the descriptor returns exactly the appended messages in
\* order, then None, and None again on further calls.
C5_ClosedRoundTrip ==
    wstate = "closed" =>
        LET d == Drain(SegFile, snapshot.buffer_size)
            again == SegmentIterator_next(d.it, SegFile)
        IN  /\ d.msgs = appended
            /\ d.kind = "None"
            /\ again.kind = "None"
            /\ SegmentIterator_next(again.it, SegFile).kind = "None"

\* C5 witness: a closed segment holding a Full message packed behind
\* another one and a message split over blocks.
C5_Witness ==
    /\ wstate = "closed"
    /\ Len(appended) = 3
    /\ appended[3] = Msg(13, 9)
    /\ Len(SegFile) = 3 * BS + FOOTER_BYTE_COUNT
    /\ BS = 20

\* C6 as stated (packing invariant), read with the least k the premise
\* allows: when payloads plus chunk headers total at most k blocks, the
\* file without its footer is exactly k blocks.
C6_Original ==
    wstate \in {"open", "closed"} =>
        LET total == TotalChunkBytes(NumBlocks)
            k == (total + BS - 1) \div BS
        IN  Len(DataBytes) = k * BS

\* C6 amended.  The file without its footer is a whole number k of blocks
\* that hold all payloads and chunk headers, and every block but the last
\* has at most 9 unused bytes (a block is left for a new one only when no
\* further header plus one payload byte fits).
C6_Packing ==
    wstate \in {"open", "closed"} =>
        /\ Len(DataBytes) = NumBlocks * BS
        /\ TotalChunkBytes(NumBlocks) <= NumBlocks * BS
        /\ \A k \in 0..(NumBlocks - 2) :
              BS - ChunkBytesFrom(BlockAt(k), 0) <= NUM_HEADER_BYTES

\* C6 witness: two messages share the first block and a third message had
\* to open a second block.
C6_Witness ==
    /\ wstate = "open"
    /\ Len(appended) = 3
    /\ NumBlocks = 2
    /\ ChunkBytesFrom(BlockAt(0), 0) > 2 * NUM_HEADER_BYTES
    /\ ChunkBytesFrom(BlockAt(0), 0) < BS

\* C9 (footer round trip).  SegmentInfo::from_file on the closed segment
\* equals the snapshot taken right before the close.
C9_FooterRoundTrip ==
    wstate = "closed" =>
        LET r == SegmentInfo_from_file(SegPath, SegFile)
        IN  r.ok /\ r.info = snapshot

\* C9 witness: a closed segment with messages, whose index and start
\* offset take more than one byte.
C9_Witness ==
    /\ wstate = "closed"
    /\ Len(appended) = 2
    /\ snapshot.index = 258
    /\ snapshot.start_offset = 70000
    /\ snapshot.next_offset = 70002

\* C10 (message count).  next_offset - start_offset is the number of appends
\* that returned (a rejected empty append does not count), and the footer
\* written at close records that next_offset.
C10_MessageCount ==
    /\ wstate \in {"open", "closed"} =>
          writer.segment_info.next_offset - writer.segment_info.start_offset = Len(appended)
    /\ wstate = "closed" =>
          U64ReadBytes(SegFile, Len(SegFile) - FOOTER_BYTE_COUNT + FOOTER_NEXT_INDEX_OFFSET).value
              = writer.segment_info.start_offset + Len(appended)

\* C10 witness: a closed segment after two appends that returned, the last
\* append call before the close having been rejected as empty.
C10_Witness ==
    /\ wstate = "closed"
    /\ Len(appended) = 2
    /\ rejected
    /\ lastError = "EmptyMessage"
    /\ writer.segment_info.start_offset = 70000

\* ------------------------------------------------------------------------
\* Claims checked under SpecConc
\* ------------------------------------------------------------------------

\* Every chunk of the append in progress has been written (not yet synced)
PendingWritten ==
    wstate = "appending" /\ pend.i >= num_chunks(writer, pend.remaining)

\* C4 (no torn message).  With next() free to run between the block writes
\* of one append, every value next() has returned is the whole payload of
\* an appended message, in append order: a message is seen only once all
\* its chunks are written, and then whole.
C4_NoTornMessage ==
    wstate \in {"open", "appending"} =>
        /\ lastNext.kind # "Panic"
        /\ IsPrefix(returned,
                    IF PendingWritten THEN Append(appended, pend.payload) ELSE appended)

\* C7 (durability boundary).  When append has returned, nothing written is
\* unsynced; and the file that survives a crash at any point, read from its
\* start, yields every message whose append had returned, in append order.
C7_Durability ==
    /\ wstate = "open" => disk = SegFile /\ unsynced = <<>>
    /\ wstate = "crashed" => IsPrefix(appended, Drain(SegFile, BS).msgs)

\* C7 witness: a crash in the middle of a third append, whose first block
\* write (a rewrite of the trailing block) did not survive while a later
\* one did.
C7_Witness ==
    /\ wstate = "crashed"
    /\ Len(appended) = 2
    /\ pend.num_pre_chunks = 1
    /\ Len(unsynced) >= 2
    /\ 1 \notin kept
    /\ 2 \in kept

\* C8 (a partial message is dropped).  After a crash that left fewer than
\* all chunks of the interrupted append in the file, a new iterator returns
\* exactly the messages whose appends had returned, then None on every
\* further call.
C8_PartialDropped ==
    (wstate = "crashed" /\ pend # NoPend /\ Cardinality(kept) < pend.n_chunks) =>
        LET d == Drain(SegFile, BS)
            again == SegmentIterator_next(d.it, SegFile)
        IN  /\ d.msgs = appended
            /\ d.kind = "None"
            /\ again.kind = "None"
            /\ SegmentIterator_next(again.it, SegFile).kind = "None"

\* C8 witness: the crash left the Start chunk of a three-chunk message in
\* the file, behind a message that had been appended, and no End.
C8_Witness ==
    /\ wstate = "crashed"
    /\ Len(appended) = 1
    /\ pend.n_chunks = 3
    /\ kept = {1}
    /\ Len(SegFile) > Len(disk)
    /\ SegFile[Len(disk) + TYPE_OFFSET + 1] = CT_Start

\* ------------------------------------------------------------------------
\* Claims checked under SpecTopic
\* ------------------------------------------------------------------------

\* C1 as stated (round trip).  After any produces of non-empty messages on
\* a fresh topic, iter() yields exactly the produced messages in order,
\* then None.
C1_Original ==
    ~rejected =>
        LET d == TopicDrainFrom(Topic_iter(topic), fs, <<>>)
        IN  d.msgs = appended /\ d.kind = "None"

\* C1 amended.  The same once Topic.close has closed the segment of the
\* last produce (no segment is open): iter() yields exactly the produced
\* messages in order, then None.
C1_RoundTrip ==
    (~rejected /\ wstate = "none") =>
        LET d == TopicDrainFrom(Topic_iter(topic), fs, <<>>)
        IN  /\ d.msgs = appended
            /\ d.kind = "None"
            /\ TopicIterator_next(d.ti, fs).kind = "None"

\* C1 witness: three messages in two closed segments, one of them split
\* over blocks.
C1_Witness ==
    /\ ~rejected
    /\ wstate = "none"
    /\ Len(topic.segments) = 2
    /\ Len(appended) = 3
    /\ \E i \in 1..3 : Len(appended[i]) > topic.buffer_size - NUM_HEADER_BYTES

\* The messages read from the file of a segment descriptor by a new iterator
SegmentMessages(segment) == Drain(fs[segment.path], segment.buffer_size).msgs

C12_IterClosedSegments ==
    ~rejected =>
        /\ \A i \in 1..Len(topic.segments) : topic.segments[i].index = i - 1
        /\ LET d == TopicDrainFrom(Topic_iter(topic), fs, <<>>)
           IN  d.msgs = ClosedMessages /\ d.kind = "None"
        /\ topicIter.live =>
              LET d == TopicDrainFrom(topicIter.ti, fs, topicIter.got)
              IN  /\ d.msgs = topicIter.expect
                  /\ d.kind = "None"
                  /\ topicIter.last = "None" => topicIter.got = topicIter.expect

\* C12 witness: an iterator made while one segment was closed and the open
\* one held a message has returned the closed segment's message and then
\* None, after the open segment was closed and a third message produced.
C12_Witness ==
    /\ ~rejected
    /\ topicIter.live
    /\ topicIter.open_at_iter = 1
    /\ Len(topicIter.expect) = 1
    /\ topicIter.got = topicIter.expect
    /\ topicIter.last = "None"
    /\ Len(topic.segments) = 2
    /\ Len(appended) = 3

\* ------------------------------------------------------------------------
\* Claims checked under SpecReopen
\* ------------------------------------------------------------------------

\* C13 (reopen rebuilds the index from the footers).  Every descriptor the
\* topic holds, after Topic::new opened the directory as after a close,
\* equals what SegmentInfo::from_file reads from the footer of its file:
\* index, block size, start offset and next offset.
C13_ReopenFromFooters ==
    \A i \in 1..Len(topic.segments) :
        LET s == topic.segments[i]
            f == SegmentInfo_from_file(s.path, fs[s.path])
        IN  f.ok /\ f.info = s

\* A segment list in ascending order of segment index
SortedByIndex(segments) ==
    \A i, j \in 1..Len(segments) : i < j => segments[i].index < segments[j].index

\* C14 (sorted after open).  Whatever order read_dir returns the files in,
\* the segment list Topic::new leaves is in ascending order of segment
\* index.
C14_SortedAfterOpen == [][Reopen => SortedByIndex(topic'.segments)]_vars

\* The file is at least a footer long and holds the magic byte where the
\* footer starts
EndsWithFooter(file) ==
    /\ Len(file) >= FOOTER_BYTE_COUNT
    /\ U8ReadBytes(file, Len(file) - FOOTER_BYTE_COUNT + FOOTER_MAGIC_OFFSET).value
          = FOOTER_MAGIC_BYTE

\* The segment files of the directory that do not end with a footer
UnfootedFiles == {p \in DOMAIN fs : ~EndsWithFooter(fs[p])}

\* C15 (one open segment, at the tail).  At most one segment file of the
\* directory lacks a footer, and if one does, no segment file has a higher
\* index.
C15_OneOpenAtTail ==
    /\ Cardinality(UnfootedFiles) <= 1
    /\ \A p \in UnfootedFiles, q \in DOMAIN fs :
          ParseSegmentOffset(q) <= ParseSegmentOffset(p)

\* ------------------------------------------------------------------------
\* Claims checked under SpecTopic (continued)
\* ------------------------------------------------------------------------

\* C16 (an empty payload changes nothing).  A Topic.produce of the empty
\* message fails with EmptyMessage and leaves the files of the directory,
\* the open segment and its writer (buffer_offset, next_offset), and the
\* segment list as they were: no segment is opened or created by it.
C16_EmptyChangesNothing ==
    [][Topic_produce(<<>>) =>
          /\ lastError' = "EmptyMessage"
          /\ UNCHANGED <<fs, disk, unsynced, writer, wstate, topic, appended>>]_vars

\* ------------------------------------------------------------------------
\* Claims checked under SpecReopen (continued)
\* ------------------------------------------------------------------------

\* The file ends with a footer and no writer is open on it
ClosedFile(p) ==
    /\ EndsWithFooter(fs[p])
    /\ ~(wstate = "open" /\ writer.segment_info.path = p)

\* C17 (footer exactly once).  The step that closes a segment's writer
\* adds the 33 footer bytes at the end of its file and changes nothing
\* before them; and no step writes to a file that ends with a footer and
\* has no writer open: no block and no second footer is written to it.
C17_FooterOnce ==
    [][/\ (wstate = "open" /\ wstate' = "none") =>
             LET p == writer.segment_info.path
             IN  /\ Len(fs'[p]) = Len(fs[p]) + FOOTER_BYTE_COUNT
                 /\ Slice(fs'[p], 0, Len(fs[p])) = fs[p]
                 /\ EndsWithFooter(fs'[p])
       /\ \A p \in DOMAIN fs : ClosedFile(p) => fs'[p] = fs[p]]_vars

\* ------------------------------------------------------------------------
\* Claims checked under Spec (continued)
\* ------------------------------------------------------------------------

\* The byte at offset 0 of the last 33 bytes of the segment file
MagicPositionByte == SegFile[Len(SegFile) - FOOTER_BYTE_COUNT + 1]

\* C18 as stated (missing magic).  from_file fails with MissingMagic when
\* the byte at offset 0 of the last 33 bytes is not 0x2A, returns a
\* descriptor only when it is, and returns none for a segment that was
\* never closed.
C18_Original ==
    wstate \in {"open", "closed"} =>
        /\ (Len(SegFile) >= FOOTER_BYTE_COUNT /\ MagicPositionByte # FOOTER_MAGIC_BYTE)
              => from_file_outcome(SegFile) = "MissingMagic"
        /\ from_file_outcome(SegFile) = "Ok"
              => (Len(SegFile) >= FOOTER_BYTE_COUNT /\ MagicPositionByte = FOOTER_MAGIC_BYTE)
        /\ wstate = "open" => from_file_outcome(SegFile) # "Ok"

\* C18 amended.  On a file of 33 bytes or more from_file fails with
\* MissingMagic when the byte at offset 0 of the last 33 bytes is not 0x2A
\* and returns a descriptor exactly when it is 0x2A; on a shorter file it
\* fails at the seek.  A closed segment gets a descriptor; a segment that
\* was never closed is refused only as long as the byte 33 before its end,
\* a byte of its blocks, is not 0x2A.
C18_MagicCheck ==
    wstate \in {"open", "closed"} =>
        /\ (Len(SegFile) >= FOOTER_BYTE_COUNT /\ MagicPositionByte # FOOTER_MAGIC_BYTE)
              => from_file_outcome(SegFile) = "MissingMagic"
        /\ from_file_outcome(SegFile) = "Ok"
              <=> (Len(SegFile) >= FOOTER_BYTE_COUNT /\ MagicPositionByte = FOOTER_MAGIC_BYTE)
        /\ Len(SegFile) < FOOTER_BYTE_COUNT => from_file_outcome(SegFile) = "SeekFailed"
        /\ wstate = "closed" => from_file_outcome(SegFile) = "Ok"

\* C18 witness: an open segment of two blocks of 21 bytes whose first
\* payload byte, 33 bytes before the end, is 0x2A: from_file returns a
\* descriptor for it.
C18_Witness ==
    /\ wstate = "open"
    /\ BS = 21
    /\ Len(SegFile) = 2 * BS
    /\ SegFile[PAYLOAD_OFFSET + 1] = FOOTER_MAGIC_BYTE
    /\ from_file_outcome(SegFile) = "Ok"

\* ------------------------------------------------------------------------
\* Claims checked under SpecConc (continued)
\* ------------------------------------------------------------------------

\* C19 (block alignment).  While the writer is open the segment file is a
\* whole number of blocks and the writer's cursor is at its end between
\* appends; every write of an append covers exactly one block at a block
\* boundary; the tail-fill write of an append is at the start of the last
\* block the file had, and the writes after it extend the file block by
\* block.
C19_BlockAlignment ==
    wstate \in {"open", "appending"} =>
        /\ Len(SegFile) % BS = 0
        /\ wstate = "open" => writer.cursor = Len(SegFile)
        /\ \A k \in 1..Len(unsynced) :
              /\ Len(unsynced[k].data) = BS
              /\ unsynced[k].pos % BS = 0
              /\ unsynced[k].pos = Len(disk) + (k - 1 - pend.num_pre_chunks) * BS
        /\ writer.cursor = Len(disk) + (Len(unsynced) - pend.num_pre_chunks) * BS

\* C19 witness: an append in progress has rewritten the last block of the
\* file and then written a new block behind it.
C19_Witness ==
    /\ wstate = "appending"
    /\ pend.num_pre_chunks = 1
    /\ Len(unsynced) = 2
    /\ Len(disk) >= BS
    /\ unsynced[1].pos = Len(disk) - BS
    /\ unsynced[2].pos = Len(disk)
    /\ Len(SegFile) = Len(disk) + BS

\* ------------------------------------------------------------------------
\* Claims checked under Spec (chunk grammar)
\* ------------------------------------------------------------------------

RECURSIVE ChunksFrom(_, _)
\* The chunks of a block from offset o on, as [type, payload], up to the
\* first Null type byte or the point where no header fits
ChunksFrom(block, o) ==
    IF o + NUM_HEADER_BYTES >= Len(block) THEN <<>>
    ELSE IF block[o + TYPE_OFFSET + 1] = CT_Null THEN <<>>
    ELSE LET len == U32ReadBytes(block, o + LEN_OFFSET).value
         IN  <<[type |-> block[o + TYPE_OFFSET + 1],
                payload |-> Slice(block, o + PAYLOAD_OFFSET, o + PAYLOAD_OFFSET + len)]>>
             \o ChunksFrom(block, o + NUM_HEADER_BYTES + len)

RECURSIVE FileChunks(_)
\* The chunks of the first n blocks of the segment file, in file order
FileChunks(n) ==
    IF n = 0 THEN <<>> ELSE FileChunks(n - 1) \o ChunksFrom(BlockAt(n - 1), 0)

RECURSIVE ParseGroups(_, _, _, _, _)
\* The chunks from the k-th on read as groups, each a lone Full or a Start,
\* Middles and an End: [ok, msgs], msgs the concatenated payloads of the
\* groups; in_group tells that a Start is waiting for its End, acc holds
\* the payloads since that Start.
ParseGroups(chunks, k, in_group, acc, msgs) ==
    IF k > Len(chunks) THEN [ok |-> ~in_group, msgs |-> msgs]
    ELSE LET c == chunks[k]
         IN  IF c.type = CT_Full /\ ~in_group
             THEN ParseGroups(chunks, k + 1, FALSE, <<>>, Append(msgs, c.payload))
             ELSE IF c.type = CT_Start /\ ~in_group
             THEN ParseGroups(chunks, k + 1, TRUE, c.payload, msgs)
             ELSE IF c.type = CT_Middle /\ in_group
             THEN ParseGroups(chunks, k + 1, TRUE, acc \o c.payload, msgs)
             ELSE IF c.type = CT_End /\ in_group
             THEN ParseGroups(chunks, k + 1, FALSE, <<>>, Append(msgs, acc \o c.payload))
             ELSE [ok |-> FALSE, msgs |-> msgs]

\* C20 (chunk grammar).  After completed appends the chunks of the file,
\* in file order, are groups of a lone Full or of a Start, zero or more
\* Middles and an End; the payloads of the i-th group concatenated are the
\* i-th appended message; and every chunk holds at least one payload byte.
C20_ChunkGrammar ==
    wstate \in {"open", "closed"} =>
        LET chunks == FileChunks(NumBlocks)
            g == ParseGroups(chunks, 1, FALSE, <<>>, <<>>)
        IN  /\ g.ok
            /\ g.msgs = appended
            /\ \A k \in 1..Len(chunks) : Len(chunks[k].payload) >= 1

\* C20 witness: a message in a fresh block, then a message whose first
\* chunk is packed behind it in the same block and whose middle and last
\* chunks take fresh blocks.
C20_Witness ==
    /\ wstate = "open"
    /\ Len(appended) = 2
    /\ NumBlocks = 3
    /\ Len(ChunksFrom(BlockAt(0), 0)) = 2
    /\ [k \in 1..4 |-> FileChunks(NumBlocks)[k].type] = <<CT_Full, CT_Start, CT_Middle, CT_End>>

\* ------------------------------------------------------------------------
\* Claims checked under Spec (CRC)
\* ------------------------------------------------------------------------

RECURSIVE ChunkCrcsValid(_, _)
\* Every chunk of a block from offset o on has a known type, ends inside
\* the block, and stores in its CRC field the CRC-32 of its bytes from the
\* length field to the end of its payload
ChunkCrcsValid(block, o) ==
    IF o + NUM_HEADER_BYTES >= Len(block) THEN TRUE
    ELSE IF block[o + TYPE_OFFSET + 1] = CT_Null THEN TRUE
    ELSE LET len == U32ReadBytes(block, o + LEN_OFFSET).value
             chunk_end == o + PAYLOAD_OFFSET + len
         IN  /\ KnownChunkType(block[o + TYPE_OFFSET + 1])
             /\ chunk_end <= Len(block)
             /\ Slice(block, o + CRC_OFFSET, o + CRC_OFFSET + 4)
                    = calculate_crc(Slice(block, o + LEN_OFFSET, chunk_end))
             /\ ChunkCrcsValid(block, chunk_end)

\* C21 (CRC validity).  Every chunk in every block of the file, a chunk
\* packed into a rewritten trailing block included, stores the CRC-32 of
\* its bytes from the length field through the end of its payload, and an
\* iterator over what the writer wrote never panics (invalid crc, unknown
\* chunk type): neither the tailing iterator nor a new one reading the
\* whole file.
C21_CrcValid ==
    wstate \in {"open", "closed"} =>
        /\ \A k \in 0..(NumBlocks - 1) : ChunkCrcsValid(BlockAt(k), 0)
        /\ lastNext.kind # "Panic"
        /\ Drain(SegFile, BS).kind = "None"

\* C21 witness: a block was rewritten with a second chunk packed behind
\* the first, and the tailing iterator has read both chunks.
C21_Witness ==
    /\ wstate = "open"
    /\ Len(appended) = 2
    /\ NumBlocks = 1
    /\ Len(ChunksFrom(BlockAt(0), 0)) = 2
    /\ returned = appended
    /\ lastNext.kind = "Some"

\* ------------------------------------------------------------------------
\* Claims checked under SpecCodec
\* ------------------------------------------------------------------------

\* Bits 8i..8i+7 of v, for v below 2^31
BitsOfByte(v, i) == IF 8 * i >= 31 THEN 0 ELSE (v \div Pow2(8 * i)) % 256

\* C22 (codec round trip).  For each width N of u8, u32, u64 and every
\* index k with k + N <= len(buf): after value.write_bytes(buf, k), reading
\* at k returns the value, byte k + i of the buffer holds bits 8i..8i+7 of
\* the value, and the buffer has its length and every byte outside
\* [k, k + N) as before the write.
C22_RoundTrip ==
    (codec.wrote # "NotCalled" /\ codec.index + codec.n <= Len(codec.before)) =>
        /\ codec.wrote = "Ok"
        /\ Persistable_read_bytes(codec.n, codec.buffer, codec.index)
               = [ok |-> TRUE, value |-> codec.value]
        /\ codec.read.after_write =>
               codec.read.kind = "Ok" /\ codec.read.value = codec.value
        /\ \A i \in 0..(codec.n - 1) :
               codec.buffer[codec.index + i + 1] = BitsOfByte(codec.value, i)
        /\ Len(codec.buffer) = Len(codec.before)
        /\ \A j \in 1..Len(codec.before) :
               (j <= codec.index \/ j > codec.index + codec.n) =>
                   codec.buffer[j] = codec.before[j]

\* C22 witness: a u32 whose four bytes all differ was written in the
\* middle of a buffer of non-zero bytes and read back.
C22_Witness ==
    /\ codec.n = 4
    /\ codec.value = 16909060
    /\ codec.index = 3
    /\ Len(codec.before) = 9
    /\ codec.wrote = "Ok"
    /\ codec.read.after_write
    /\ codec.read.value = 16909060
    /\ Slice(codec.buffer, 3, 7) = <<4, 3, 2, 1>>

\* C23 (codec bounds).  write_bytes and read_bytes of a width N fail if and
\* only if index + N > len(buf), and a failed write leaves the buffer as
\* it was.
C23_Bounds ==
    /\ codec.wrote # "NotCalled" =>
          /\ codec.wrote = "Err" <=> codec.index + codec.n > Len(codec.before)
          /\ codec.wrote = "Err" => codec.buffer = codec.before
    /\ codec.read.kind # "NotCalled" =>
          (codec.read.kind = "Err" <=> codec.index + codec.n > Len(codec.buffer))

\* C23 witness: a u64 write and read were refused at an index inside the
\* buffer with fewer than 8 bytes behind it.
C23_Witness ==
    /\ codec.n = 8
    /\ codec.index = 3
    /\ Len(codec.before) = 10
    /\ codec.wrote = "Err"
    /\ codec.read.kind = "Err"
    /\ codec.buffer = codec.before

\* ------------------------------------------------------------------------
\* Claims checked under Spec (what one append does to the file)
\* ------------------------------------------------------------------------

\* ceil(a / b)
CeilDiv(a, b) == (a + b - 1) \div b

\* The chunk at offset o of a block is of this type and holds this payload
ChunkAt(block, o, type, payload) ==
    /\ o + NUM_HEADER_BYTES + Len(payload) <= Len(block)
    /\ block[o + TYPE_OFFSET + 1] = type
    /\ U32ReadBytes(block, o + LEN_OFFSET).value = Len(payload)
    /\ Slice(block, o + PAYLOAD_OFFSET, o + PAYLOAD_OFFSET + Len(payload)) = payload

\* C24 (blocks added per append).  Let o be buffer_offset before append(P),
\* L = len(P) and BS the block size.  If o > 0 and o + 9 < BS, then with
\* cap = BS - o - 9: when L <= cap the file keeps its length and a Full
\* chunk holding P is at offset o of the trailing block; otherwise a Start
\* chunk holding the first cap bytes of P is at offset o of that block and
\* the file grows by ceil((L - cap) / (BS - 9)) blocks.  If o = 0 or
\* o + 9 >= BS the bytes the file had are left as they are and the file
\* grows by ceil(L / (BS - 9)) blocks.
C24_BlocksPerAppend ==
    [][appended' # appended =>
        LET P == appended'[Len(appended')]
            L == Len(P)
            o == writer.buffer_offset
            old == SegFile
            new == fs'[writer.segment_info.path]
            trailing == Slice(new, Len(old) - BS, Len(old))
        IN  IF o > 0 /\ o + NUM_HEADER_BYTES < BS
            THEN LET cap == BS - o - NUM_HEADER_BYTES
                 IN  IF L <= cap
                     THEN /\ Len(new) = Len(old)
                          /\ ChunkAt(trailing, o, CT_Full, P)
                     ELSE /\ ChunkAt(trailing, o, CT_Start, Slice(P, 0, cap))
                          /\ Len(new) = Len(old)
                                + BS * CeilDiv(L - cap, BS - NUM_HEADER_BYTES)
            ELSE /\ IsPrefix(old, new)
                 /\ Len(new) = Len(old) + BS * CeilDiv(L, BS - NUM_HEADER_BYTES)
    ]_vars

\* C24 witness: with block size 21 a 13-byte message was appended behind a
\* one-byte message: a Start chunk of 2 bytes sits at offset 10 of the
\* first block and the file grew by one block.
C24_Witness ==
    /\ wstate = "open"
    /\ BS = 21
    /\ appended = <<Msg(1, 41), Msg(13, 9)>>
    /\ NumBlocks = 2
    /\ ChunkAt(BlockAt(0), 10, CT_Start, Slice(Msg(13, 9), 0, 2))
    /\ writer.buffer_offset = 20

\* ------------------------------------------------------------------------
\* Claims checked under SpecConc (what the writes of an append touch)
\* ------------------------------------------------------------------------

\* The bytes of the file that hold chunks: every block before the trailing
\* one, and the trailing block up to the end of its last chunk
UsedBytes == IF Len(SegFile) = 0 THEN 0 ELSE Len(SegFile) - BS + writer.buffer_offset

\* C25 (append-only frame).  No step of an append changes a byte that
\* holds an earlier chunk, and the file never shrinks.  Every block write
\* is at or behind the start of the trailing block, so the blocks before
\* it are never written again; a write at the start of the trailing block
\* (the tail-fill rewrite) carries in its bytes [0, buffer_offset) what the
\* file held there.
C25_AppendOnly ==
    [][(wstate \in {"open", "appending"} /\ wstate' \in {"open", "appending"}) =>
        LET old == SegFile
            new == fs'[writer.segment_info.path]
            o == writer.buffer_offset
        IN  /\ Len(new) >= Len(old)
            /\ \A i \in 1..UsedBytes : new[i] = old[i]
            /\ \A k \in (Len(unsynced) + 1)..Len(unsynced') :
                  /\ unsynced'[k].pos >= Len(old) - BS
                  /\ unsynced'[k].pos < Len(old) =>
                        /\ unsynced'[k].pos = Len(old) - BS
                        /\ Slice(unsynced'[k].data, 0, o) = Slice(old, Len(old) - BS, Len(old) - BS + o)
    ]_vars

\* C25 witness: a file of two blocks whose trailing block had room; an
\* append in progress has rewritten the trailing block in place, with a
\* chunk added behind the chunk it held, and the first block is as it was.
C25_Witness ==
    /\ wstate = "appending"
    /\ Len(disk) = 2 * BS
    /\ Len(unsynced) = 1
    /\ unsynced[1].pos = BS
    /\ unsynced[1].data # Slice(disk, BS, 2 * BS)
    /\ Len(ChunksFrom(unsynced[1].data, 0)) = 2
    /\ Slice(SegFile, 0, BS) = Slice(disk, 0, BS)

\* ------------------------------------------------------------------------
\* Claims checked under Spec (the writer's buffer)
\* ------------------------------------------------------------------------

\* C26 (buffer mirror).  After every completed append the writer's
\* write_buffer equals the last block of the file, 0 < buffer_offset <=
\* buffer_size, buffer_offset is where the chunks of that block end (so no
\* chunk runs past the end of the block), and every byte of the block at or
\* behind buffer_offset is zero.
C26_BufferMirror ==
    (wstate = "open" /\ Len(appended) >= 1) =>
        /\ NumBlocks >= 1
        /\ Len(writer.write_buffer) = BS
        /\ writer.write_buffer = BlockAt(NumBlocks - 1)
        /\ 0 < writer.buffer_offset
        /\ writer.buffer_offset <= BS
        /\ ChunkBytesFrom(BlockAt(NumBlocks - 1), 0) = writer.buffer_offset
        /\ \A i \in (writer.buffer_offset + 1)..BS : BlockAt(NumBlocks - 1)[i] = 0

\* C26 witness: with block size 16 a 13-byte message left 15 bytes in the
\* buffer, and a one-byte message then took a new block: the buffer holds
\* that block, 10 bytes of chunk and zeros behind.
C26_Witness ==
    /\ wstate = "open"
    /\ BS = 16
    /\ appended = <<Msg(13, 9), Msg(1, 41)>>
    /\ NumBlocks = 3
    /\ writer.buffer_offset = 10
    /\ writer.write_buffer = BlockAt(2)
    /\ Slice(writer.write_buffer, 10, 16) = Zeros(6)

\* ------------------------------------------------------------------------
\* Claims checked under Spec (a reader at the end of a rewritten block)
\* ------------------------------------------------------------------------

\* The block of the file the iterator's buffer was loaded from
ReaderBlock == Slice(SegFile, iter.pos - BS, iter.pos)

\* The iterator had read every chunk of the trailing block and saw the
\* Null type byte behind them; the writer has since packed the first chunk
\* of one further message into that block, and the block is now full to
\* its last byte (no Null type byte is left in it).
ExactFillBehindReader ==
    /\ wstate = "open"
    /\ iter.pos >= BS
    /\ iter.pos <= Len(SegFile)
    /\ Len(returned) + 1 = Len(appended)
    /\ iter.offset + NUM_HEADER_BYTES < BS
    /\ iter.buffer[iter.offset + TYPE_OFFSET + 1] = CT_Null
    /\ ReaderBlock[iter.offset + TYPE_OFFSET + 1] # CT_Null
    /\ Slice(ReaderBlock, 0, iter.offset) = Slice(iter.buffer, 0, iter.offset)
    /\ ChunkBytesFrom(ReaderBlock, 0) = BS

\* C27 as stated (exact-fill rewrite is not detected): in that situation
\* next() does not return the newly packed message.
C27_Original ==
    ExactFillBehindReader =>
        LET r == SegmentIterator_next(iter, SegFile)
        IN  ~(r.kind = "Some" /\ r.payload = appended[Len(appended)])

\* C27 amended.  In that situation the iterator does detect the rewrite:
\* it is not exhausted (room for a packed chunk, offset + 9 < block size,
\* is what lets the writer pack), so next() re-reads the block, finds the
\* chunk where it had seen Null, and returns the newly packed message
\* whole; a further call returns None.
C27_ExactFillDetected ==
    ExactFillBehindReader =>
        LET r == SegmentIterator_next(iter, SegFile)
        IN  /\ r.kind = "Some"
            /\ r.payload = appended[Len(appended)]
            /\ SegmentIterator_next(r.it, SegFile).kind = "None"

\* C27 witness: block size 21; the iterator read the one-byte message and
\* then got None; a two-byte message was packed behind it as a Full chunk
\* that ends at byte 21 of the block.
C27_Witness ==
    /\ ExactFillBehindReader
    /\ BS = 21
    /\ NumBlocks = 1
    /\ lastNext.kind = "None"
    /\ iter.offset = 10
    /\ writer.buffer_offset = 21
    /\ ChunkAt(BlockAt(0), 10, CT_Full, appended[2])

\* ------------------------------------------------------------------------
\* Claims checked under SpecTopicIter (end of stream)
\* ------------------------------------------------------------------------

\* C28 (TopicIterator end of stream is final).  When next() has returned
\* None, every segment of the iterator's queue has been read to its end
\* (what the iterator returned are all the messages of the segments that
\* were closed when iter() was called, also behind a segment that holds no
\* message), and the next call returns None again.
C28_NoneIsFinal ==
    (topicIter.live /\ topicIter.last = "None") =>
        /\ topicIter.got = topicIter.expect
        /\ TopicIterator_next(topicIter.ti, fs).kind = "None"

\* ------------------------------------------------------------------------
\* Claims checked under SpecReopen (the index of a new segment)
\* ------------------------------------------------------------------------

\* C29 (no segment is overwritten).  Whenever Topic.produce opens a new
\* segment, its index is greater than the index of every segment file the
\* directory holds, and the file SegmentWriter::new creates is not one of
\* them.
C29_NoOverwrite ==
    [][(wstate = "none" /\ wstate' = "open") =>
          /\ \A p \in DOMAIN fs : ParseSegmentOffset(p) < writer'.segment_info.index
          /\ writer'.segment_info.path \notin DOMAIN fs]_vars

\* ------------------------------------------------------------------------
\* Claims checked under SpecFooter
\* ------------------------------------------------------------------------

\* C30 (the footer is never read as data).  On a closed segment, whatever
\* its block size, index and offsets, a new iterator returns the appended
\* messages and then None, and so does an iterator that was tailing the
\* segment when it was closed: none of them returns anything else (bytes
\* of the footer), and none of them panics.
C30_FooterNotData ==
    wstate = "closed" =>
        /\ Drain(SegFile, BS) = [msgs |-> appended, kind |-> "None",
                                 it |-> Drain(SegFile, BS).it]
        /\ lastNext.kind # "Panic"
        /\ IsPrefix(returned, appended)
        /\ DrainFrom(iter, SegFile, returned).msgs = appended
        /\ DrainFrom(iter, SegFile, returned).kind = "None"

====
